---- MODULE Spec2Model ----
(***************************************************************************)
(* Verification model of the product-scraper pipelines.                    *)
(*                                                                         *)
(*  - Spec         : the two use cases (EnrichProductUseCase,              *)
(*                   ScrapeProductUseCase) as a caller drives them.        *)
(*  - SpecAdapter  : RiachueloEcommerceAdapter on top of a browser         *)
(*                   gateway, as a caller drives its public methods.       *)
(*  - SpecRoutines : the side-effect-free routines (structured-data        *)
(*                   extraction, reply normalisation, stage parsers, field *)
(*                   resolvers), each applied to inputs of bounded size.   *)
(*                                                                         *)
(* Python strings that the code builds (URLs) are sequences of tokens, so  *)
(* that concatenation and startswith are computed, not assumed.            *)
(***************************************************************************)
EXTENDS Integers, Sequences, FiniteSets, TLC

\* ------------------------------------------------------------------ bounds
\* product identifiers handed to enrich are 0..MaxProductId (or None)
MaxProductId == 2
\* adapter methods a caller invokes on one browser page
MaxAdapterCalls == 2

\* ------------------------------------------------------------- python bits
None == "None"

\* Exception classes that collaborators raise; all derive from Exception.
\* RuntimeError stands for any class the handlers do not name.
ExcKinds ==
    {"AIGatewayException", "ProductNotFoundException", "NavigationException",
     "TypeError", "AttributeError", "RuntimeError"}

\* An Optional[int] is <<>> (None) or <<n>>.
NoId == <<>>
SomeId(n) == <<n>>

\* Python truthiness of an Optional[int]: None and 0 are falsy.
Truthy(v) == v # NoId /\ v # SomeId(0)

\* Number of positional arguments (besides self) the callee's signature
\* accepts, as [min, max]; a call outside the range raises TypeError.
CallOutcome(given, lo, hi) == IF lo <= given /\ given <= hi THEN "ok" ELSE "TypeError"

\* --------------------------------------------------------------- variables
VARIABLES
    pc,          \* position of the single thread of control
    ucEnrich,    \* the EnrichProductUseCase instance: constructed or not, with a repository or not
    eInput,      \* EnrichProductInput of the running/last apply
    eParts,      \* locals of apply: attributes, categorization, content
    eSteps,      \* collaborator calls of the running/last apply, in order
    eResult,     \* what the last apply returned
    sInput,      \* the scrape a caller asked for: query, debug flag, world
    sSteps,      \* gateway/repository calls of the scrape, in order
    sResult,     \* what the scrape produced (a response, or an escaped exception)
    browserLog,  \* adapter level: browser operations issued, in order
    callLog,     \* adapter level: adapter methods invoked, with their outcome
    lastLink,    \* adapter level: URL returned by the last find_product_link
    fnCall,      \* routine level: the last call of a side-effect-free routine
    productRows, \* store: the committed rows of table products
    productSeq,  \* store: the last value drawn from the id sequence of products
    enrichmentRows, \* store: the committed rows of table product_enrichments, by id
    dbCall,      \* store: the last repository call, with its outcome
    scraper,     \* script: the RiachueloScraper instance and where its with block is
    openResources \* script: the driver, browser and context that are running

ucVars == <<pc, ucEnrich, eInput, eParts, eSteps, eResult, sInput, sSteps, sResult>>
adVars == <<browserLog, callLog, lastLink>>
stVars == <<productRows, productSeq, enrichmentRows, dbCall, scraper, openResources>>
vars == <<ucVars, adVars, fnCall, stVars>>

NoResult == [tag |-> "none"]
NoPart == [stage |-> "none", seq |-> "none"]
NoParts == [attributes |-> NoPart, categorization |-> NoPart, content |-> NoPart]
NoInput == [product_id |-> NoId, product_data |-> "unset"]
NoUrl == <<>>
NoUseCase == [constructed |-> FALSE, repo |-> FALSE]
NoCall == [fn |-> "none"]
NoScrape == [query |-> <<>>, save_debug_files |-> FALSE, repo |-> FALSE,
             world |-> [fail |-> None, exc |-> None]]

\* ------------------------------------------------ AI collaborator outcomes
\* How a sequence-typed key arrives in the decoded reply.
SeqKinds == {"list", "null", "absent"}

\* AIGateway.complete either raises or returns a decoded mapping; of the
\* mapping only the keys the stage measures with len() decide control flow.
AIRaises == {"AIGatewayException", "RuntimeError"}
AIOutcomes == [raised : AIRaises] \cup [raised : {None}, seq : SeqKinds]

\* dict.get(key, []) followed by len(): a key present with null gives None,
\* and len(None) raises TypeError; an absent key gives the [] default.
LenOfKey(kind) == IF kind = "null" THEN "TypeError" ELSE "ok"
ValueOfKey(kind) == IF kind = "absent" THEN "empty" ELSE kind

\* One enrichment action's apply: log, ai.complete(prompt, view),
\* _parse_response, log with len(...) of the sequence key(s).
\* Returns the exception that leaves apply (or None) and the sub-record.
StageApply(stage, out) ==
    IF out.raised # None
    THEN [exc |-> out.raised, value |-> NoPart]
    ELSE IF LenOfKey(out.seq) # "ok"
         THEN [exc |-> LenOfKey(out.seq), value |-> NoPart]
         ELSE [exc |-> None, value |-> [stage |-> stage, seq |-> ValueOfKey(out.seq)]]

\* --------------------------------------------------- EnrichProductUseCase
EnrichActionInitParams == 2
UseCaseActionArgs == 2

\* Mutant: the catch-all clause is missing, other exceptions leave apply.
EnrichExcept_NoCatchAll(exc) ==
    IF exc = "AIGatewayException"
    THEN [tag |-> "error", error_type |-> "ai_error", step |-> "ai_call"]
    ELSE [tag |-> "raised", exc |-> exc, from |-> "apply"]

\* Mutant: the AIGatewayException clause is missing, the catch-all takes all.
EnrichExcept_NoAIClause(exc) ==
    [tag |-> "error", error_type |-> "unexpected_error", step |-> None]

\* except AIGatewayException -> ai_error / except Exception -> unexpected_error
EnrichExcept(exc) ==
    IF exc = "AIGatewayException"
    THEN [tag |-> "error", error_type |-> "ai_error", step |-> "ai_call"]
    ELSE [tag |-> "error", error_type |-> "unexpected_error", step |-> None]

\* __init__: stores the collaborators and builds the three actions.
EnrichProductUseCaseInit ==
    /\ pc = "idle"
    /\ \E repo \in BOOLEAN :
         ucEnrich' =
            IF CallOutcome(UseCaseActionArgs, EnrichActionInitParams, EnrichActionInitParams) = "ok"
            THEN [constructed |-> TRUE, repo |-> repo]
            ELSE NoUseCase
    /\ eInput' = NoInput /\ eParts' = NoParts /\ eSteps' = <<>> /\ eResult' = NoResult
    /\ sInput' = NoScrape /\ sSteps' = <<>> /\ sResult' = NoResult
    /\ UNCHANGED <<pc, adVars, fnCall, stVars>>

\* apply, up to the first collaborator call. The records of the previous
\* call (of either pipeline) are cleared when a call starts.
EnrichApplyStart ==
    /\ pc = "idle"
    /\ ucEnrich.constructed
    /\ \E id \in {SomeId(n) : n \in 0..MaxProductId} \cup {NoId},
          data \in {"mapping", "not_a_mapping"} :
         /\ eInput' = [product_id |-> id, product_data |-> data]
         \* product_data.get("name", "Unknown") is the first statement of the try
         /\ IF data = "mapping"
            THEN pc' = "e_attributes" /\ eResult' = NoResult
            ELSE pc' = "idle" /\ eResult' = EnrichExcept("AttributeError")
    /\ eParts' = NoParts /\ eSteps' = <<>>
    /\ sInput' = NoScrape /\ sSteps' = <<>> /\ sResult' = NoResult
    /\ UNCHANGED <<ucEnrich, adVars, fnCall, stVars>>

\* Mutant: a failed stage is logged and the next stage runs all the same.
EnrichStage_ContinueOnError(here, stage, next) ==
    /\ pc = here
    /\ \E out \in AIOutcomes :
         LET r == StageApply(stage, out) IN
         /\ eSteps' = Append(eSteps, [step |-> stage, raised |-> r.exc])
         /\ eParts' = [eParts EXCEPT ![stage] = r.value]
         /\ pc' = next
         /\ eResult' = eResult
    /\ UNCHANGED <<ucEnrich, eInput, sInput, sSteps, sResult, adVars, fnCall, stVars>>

\* A stage of apply: run the action; on an exception the handlers of apply
\* produce the response, else the sub-record is kept and control moves on.
EnrichStage(here, stage, next) ==
    /\ pc = here
    /\ \E out \in AIOutcomes :
         LET r == StageApply(stage, out) IN
         /\ eSteps' = Append(eSteps, [step |-> stage, raised |-> r.exc])
         /\ IF r.exc = None
            THEN /\ eParts' = [eParts EXCEPT ![stage] = r.value]
                 /\ pc' = next
                 /\ eResult' = eResult
            ELSE /\ eParts' = eParts
                 /\ pc' = "idle"
                 /\ eResult' = EnrichExcept(r.exc)
    /\ UNCHANGED <<ucEnrich, eInput, sInput, sSteps, sResult, adVars, fnCall, stVars>>

ExtractAttributesApply == EnrichStage("e_attributes", "attributes", "e_categorization")
\* Mutant: the categorization stage is left out.
CategorizeProductApply_Skipped ==
    /\ pc = "e_categorization"
    /\ pc' = "e_content"
    /\ UNCHANGED <<ucEnrich, eInput, eParts, eSteps, eResult, sInput, sSteps, sResult, adVars, fnCall, stVars>>

CategorizeProductApply == EnrichStage("e_categorization", "categorization", "e_content")
GenerateContentApply == EnrichStage("e_content", "content", "e_persist")

\* The guard of the save in apply.
ShouldSaveEnrichment(repo, product_id) == repo /\ Truthy(product_id)

SaveRaises == {"RuntimeError", "AIGatewayException"}

\* apply after the three stages: assemble, save when the guard says so,
\* return success (or the handlers' response when save raises).
EnrichPersist ==
    /\ pc = "e_persist"
    /\ LET enrichment == [product_id |-> eInput.product_id,
                          attributes |-> eParts.attributes,
                          categorization |-> eParts.categorization,
                          content |-> eParts.content]
       IN IF ShouldSaveEnrichment(ucEnrich.repo, eInput.product_id)
          THEN \E exc \in SaveRaises \cup {None} :
                 /\ eSteps' = Append(eSteps, [step |-> "save", raised |-> exc])
                 /\ eResult' = IF exc = None
                               THEN [tag |-> "success", enrichment |-> enrichment]
                               ELSE EnrichExcept(exc)
          ELSE /\ eSteps' = eSteps
               /\ eResult' = [tag |-> "success", enrichment |-> enrichment]
    /\ pc' = "idle"
    /\ UNCHANGED <<ucEnrich, eInput, eParts, sInput, sSteps, sResult, adVars, fnCall, stVars>>

\* --------------------------------------------------- ScrapeProductUseCase
\* Positional parameters (besides self) of the scrape actions' constructors
\* and apply methods, and the arguments the use case passes to them.
ScrapeActionInitParams == 1
SearchApplyParams == 2
FindLinkApplyParams == 2
NavigateProductApplyMinParams == 1
NavigateProductApplyMaxParams == 2
ExtractApplyParams == 0
SearchApplyArgs == 1
FindLinkApplyArgs == 1
NavigateProductApplyArgs == 2
ExtractApplyArgs == 0

Queries == {<<"15247848">>, <<"camisa">>}

\* The steps of apply, in program order; the save only with a repository.
ScrapeStepSeq(repo) ==
    <<"navigate_to_search", "find_product_link", "navigate_to_product",
      "extract_product_details">> \o (IF repo THEN <<"save">> ELSE <<>>)

\* What the collaborators do during one scrape: at most one step raises
\* first (later steps are never asked), with the exception it raises.
Worlds ==
    {[fail |-> None, exc |-> None]} \cup
    [fail : {"navigate_to_search", "find_product_link", "navigate_to_product",
             "extract_product_details", "save"},
     exc : ExcKinds]

\* Binding the call a step makes to the signature of its callee.
StepCall(step) ==
    CASE step = "navigate_to_search" ->
            CallOutcome(SearchApplyArgs, SearchApplyParams, SearchApplyParams)
      [] step = "find_product_link" ->
            CallOutcome(FindLinkApplyArgs, FindLinkApplyParams, FindLinkApplyParams)
      [] step = "navigate_to_product" ->
            CallOutcome(NavigateProductApplyArgs, NavigateProductApplyMinParams,
                        NavigateProductApplyMaxParams)
      [] step = "extract_product_details" ->
            CallOutcome(ExtractApplyArgs, ExtractApplyParams, ExtractApplyParams)
      [] OTHER -> "ok"

StepOutcome(step, world) ==
    IF StepCall(step) # "ok" THEN StepCall(step)
    ELSE IF world.fail = step THEN world.exc ELSE None

\* The try block of apply: the steps one after the other, stopping at the
\* first exception.
RECURSIVE RunScrape(_, _, _, _)
RunScrape(seq, i, world, log) ==
    IF i > Len(seq) THEN [steps |-> log, exc |-> None]
    ELSE LET o == StepOutcome(seq[i], world)
             l == Append(log, [step |-> seq[i], raised |-> o])
         IN IF o # None THEN [steps |-> l, exc |-> o]
            ELSE RunScrape(seq, i + 1, world, l)

\* The three except clauses of apply.
ScrapeExcept(exc, query) ==
    [tag |-> "error",
     error_type |-> CASE exc = "ProductNotFoundException" -> "product_not_found"
                      [] exc = "NavigationException" -> "navigation_error"
                      [] OTHER -> "unexpected_error",
     query |-> query]

ExtractedProduct(query) == [name |-> "extracted", found_for |-> query]

ScrapeApply(query, repo, world) ==
    LET run == RunScrape(ScrapeStepSeq(repo), 1, world, <<>>) IN
    [steps |-> run.steps,
     result |-> IF run.exc = None
                THEN [tag |-> "success", product |-> ExtractedProduct(query)]
                ELSE ScrapeExcept(run.exc, query)]

\* __init__ builds its four actions with (ecommerce_gateway, log).
ScrapeUseCaseInitOutcome ==
    CallOutcome(UseCaseActionArgs, ScrapeActionInitParams, ScrapeActionInitParams)

\* A caller scrapes a query: it constructs the use case with a gateway and a
\* logger (and maybe a repository) and calls apply. An exception of the
\* constructor reaches the caller; apply runs only on a constructed instance.
Scrape ==
    /\ pc = "idle"
    /\ \E q \in Queries, debug \in BOOLEAN, repo \in BOOLEAN, w \in Worlds :
         /\ w.fail = "save" => repo
         /\ sInput' = [query |-> q, save_debug_files |-> debug, repo |-> repo, world |-> w]
         /\ IF ScrapeUseCaseInitOutcome = "ok"
            THEN LET a == ScrapeApply(q, repo, w) IN
                 /\ sSteps' = a.steps
                 /\ sResult' = a.result
            ELSE /\ sSteps' = <<>>
                 /\ sResult' = [tag |-> "raised", exc |-> ScrapeUseCaseInitOutcome,
                                from |-> "__init__"]
    /\ eInput' = NoInput /\ eParts' = NoParts /\ eSteps' = <<>> /\ eResult' = NoResult
    /\ UNCHANGED <<pc, ucEnrich, adVars, fnCall, stVars>>

\* ------------------------------------------------ RiachueloEcommerceAdapter
\* A str is a sequence of tokens; an Optional[str] is a record.
BASE_URL == <<"http", "s://www.riachuelo.com.br">>
SEARCH_URL == BASE_URL \o <<"/busca">>
PRODUCT_LINK_SELECTORS ==
    <<"#showcase ol > li a[href]", "[data-testid='open-product-recommendation']",
      "a[href*='riachuelo']">>

NoStr == [some |-> FALSE, val |-> <<>>]
Str(v) == [some |-> TRUE, val |-> v]
StrTruthy(o) == o.some /\ o.val # <<>>
StartsWithHttp(v) == Len(v) >= 1 /\ v[1] = "http"

\* What query_selector finds for a selector, and the href of the element.
\* "a[href]" matches only elements that carry the attribute (maybe empty),
\* "a[href*='riachuelo']" only elements whose href is a non-empty text.
MatchKinds(i) ==
    CASE i = 1 -> {"no_match", "empty_href", "rel", "abs"}
      [] i = 2 -> {"no_match", "no_href", "rel", "abs"}
      [] OTHER -> {"no_match", "rel", "abs"}
Doms == {d \in [1..Len(PRODUCT_LINK_SELECTORS) ->
                    {"no_match", "no_href", "empty_href", "rel", "abs"}] :
            \A i \in DOMAIN d : d[i] \in MatchKinds(i)}

\* get_element_attribute(element, "href") of the element selector i matched.
HrefOf(i, kind) ==
    CASE kind = "no_href" -> NoStr
      [] kind = "empty_href" -> Str(<<>>)
      [] kind = "rel" -> Str(<<"/riachuelo-produto", PRODUCT_LINK_SELECTORS[i]>>)
      [] OTHER -> Str(<<"http", "s://www.riachuelo.com.br/p", PRODUCT_LINK_SELECTORS[i]>>)

\* url = href if href.startswith("http") else f"{BASE_URL}{href}"
AbsoluteUrl(href) == IF StartsWithHttp(href) THEN href ELSE BASE_URL \o href

\* Mutant: every selector is queried and the last usable element wins.
FindFrom_LastWins(dom, i) ==
    LET usable == {k \in DOMAIN dom : dom[k] # "no_match" /\ StrTruthy(HrefOf(k, dom[k]))}
        last == CHOOSE k \in usable : \A j \in usable : j <= k
    IN IF usable = {}
       THEN [raised |-> "ProductNotFoundException", url |-> NoUrl]
       ELSE [raised |-> None, url |-> AbsoluteUrl(HrefOf(last, dom[last]).val)]

\* The loop of find_product_link from selector i on.
RECURSIVE FindFrom(_, _)
FindFrom(dom, i) ==
    IF i > Len(PRODUCT_LINK_SELECTORS)
    THEN [raised |-> "ProductNotFoundException", url |-> NoUrl]
    ELSE LET href == HrefOf(i, dom[i]) IN
         IF dom[i] # "no_match" /\ StrTruthy(href)
         THEN [raised |-> None, url |-> AbsoluteUrl(href.val)]
         ELSE FindFrom(dom, i + 1)

\* Browser operations as they enter the log.
Goto(url, ok) == [op |-> "goto", url |-> url, ok |-> ok]
Op(name) == [op |-> name, url |-> NoUrl, ok |-> TRUE]

\* Mutant: the search URL is requested directly, without the home page.
SearchOps_NoHome(query, homeOk, searchOk) ==
    <<Goto(SEARCH_URL \o <<"?q=">> \o query, searchOk)>> \o
        (IF searchOk THEN <<Op("wait")>> ELSE <<>>)

\* navigate_to_search: the browser operations it issues, given whether each
\* navigation succeeds; a failed navigation raises out of the method.
SearchOps(query, homeOk, searchOk) ==
    IF ~homeOk THEN <<Goto(BASE_URL, FALSE)>>
    ELSE <<Goto(BASE_URL, TRUE), Op("wait"),
           Goto(SEARCH_URL \o <<"?q=">> \o query, searchOk)>> \o
         (IF searchOk THEN <<Op("wait")>> ELSE <<>>)

\* Mutant: the scroll is issued only when no debug capture is requested.
ProductOps_ScrollUnlessDebug(url, debug, gotoOk) ==
    IF ~gotoOk THEN <<Goto(url, FALSE)>>
    ELSE <<Goto(url, TRUE), Op("wait")>> \o
         (IF debug THEN <<Op("screenshot"), Op("html")>> ELSE <<Op("scroll")>>)

\* navigate_to_product: navigation, load wait, scroll, then the debug capture.
ProductOps(url, debug, gotoOk) ==
    IF ~gotoOk THEN <<Goto(url, FALSE)>>
    ELSE <<Goto(url, TRUE), Op("wait"), Op("scroll")>> \o
         (IF debug THEN <<Op("screenshot"), Op("html")>> ELSE <<>>)

OpsRaise(ops) == \E i \in 1..Len(ops) : ~ops[i].ok

\* An adapter method call as it enters callLog: the method, its argument,
\* the DOM it saw (find only), the exception it raised, what it returned and
\* the part of browserLog it produced.
Call(method, arg, debug, dom, raised, ret, ops) ==
    [method |-> method, arg |-> arg, debug |-> debug, dom |-> dom,
     raised |-> raised, ret |-> ret,
     from |-> Len(browserLog) + 1, to |-> Len(browserLog) + Len(ops)]

NoDom == [i \in 1..Len(PRODUCT_LINK_SELECTORS) |-> "no_match"]
CanCall == Len(callLog) < MaxAdapterCalls

AdapterNavigateToSearch ==
    /\ CanCall
    /\ \E q \in Queries, nav \in {<<FALSE, FALSE>>, <<TRUE, FALSE>>, <<TRUE, TRUE>>} :
         LET ops == SearchOps(q, nav[1], nav[2])
             exc == IF OpsRaise(ops) THEN "RuntimeError" ELSE None
         IN /\ browserLog' = browserLog \o ops
            /\ callLog' = Append(callLog,
                    Call("navigate_to_search", q, FALSE, NoDom, exc, NoUrl, ops))
    /\ UNCHANGED <<lastLink, ucVars, fnCall, stVars>>

AdapterFindProductLink ==
    /\ CanCall
    /\ \E q \in Queries, dom \in Doms :
         LET r == FindFrom(dom, 1) IN
         /\ callLog' = Append(callLog,
                Call("find_product_link", q, FALSE, dom, r.raised, r.url, <<>>))
         /\ lastLink' = IF r.raised = None THEN r.url ELSE lastLink
    /\ UNCHANGED <<browserLog, ucVars, fnCall, stVars>>

\* The caller passes the link it found last, or a URL of its own.
OwnUrl == <<"http", "s://www.riachuelo.com.br/camisa-polo-15247848_sku">>

AdapterNavigateToProduct ==
    /\ CanCall
    /\ \E url \in {OwnUrl} \cup ({lastLink} \ {NoUrl}), debug \in BOOLEAN, gotoOk \in BOOLEAN :
         LET ops == ProductOps(url, debug, gotoOk)
             exc == IF OpsRaise(ops) THEN "RuntimeError" ELSE None
         IN /\ browserLog' = browserLog \o ops
            /\ callLog' = Append(callLog,
                    Call("navigate_to_product", url, debug, NoDom, exc, NoUrl, ops))
    /\ UNCHANGED <<lastLink, ucVars, fnCall, stVars>>

\* extract_product_details starts by reading the structured data of the page.
AdapterExtractProductDetails ==
    /\ CanCall
    /\ LET ops == <<Op("extract_json_ld")>> IN
       /\ browserLog' = browserLog \o ops
       /\ callLog' = Append(callLog,
               Call("extract_product_details", <<>>, FALSE, NoDom, None, NoUrl, ops))
    /\ UNCHANGED <<lastLink, ucVars, fnCall, stVars>>

\* The caller opens a fresh page and builds a new adapter on it.
AdapterNewPage ==
    /\ callLog # <<>>
    /\ browserLog' = <<>> /\ callLog' = <<>> /\ lastLink' = NoUrl
    /\ UNCHANGED <<ucVars, fnCall, stVars>>

\* page.goto raises Playwright's own error classes; navigate_to lets them
\* through unchanged, and none of them is a class the use case names.
PlaywrightError == "RuntimeError"

\* ------------------------------------------------------- structured data
\* blocks per page, and items per list or @graph
MaxBlocks == 2
MaxItems == 2

RecognizedTypes == {"Product", "ProductGroup"}

\* A decoded JSON value, as far as the extractors look at it: its kind, the
\* "@type" of an object ("none": no such key), whether an object has an
\* "@graph" key, and the items of a list or of the @graph.
Json(kind, type, graph, items) ==
    [kind |-> kind, type |-> type, graph |-> graph, items |-> items]
JsonObject(type) == Json("object", type, FALSE, <<>>)
JsonNull == Json("null", "none", FALSE, <<>>)
JsonScalar == Json("scalar", "none", FALSE, <<>>)
ObjectTypes == {"Product", "ProductGroup", "WebSite", "none"}

\* Items of a list: objects, or something that is not an object.
Items == {JsonObject(t) : t \in {"Product", "ProductGroup", "WebSite"}} \cup {JsonNull}
ItemLists == UNION {[1..n -> Items] : n \in 0..MaxItems}

\* The text of a script block: empty, not JSON, or the JSON value it holds.
EmptyBlock == Json("empty", "none", FALSE, <<>>)
MalformedBlock == Json("malformed", "none", FALSE, <<>>)
SimpleBlocks ==
    {EmptyBlock, MalformedBlock, JsonNull, JsonScalar} \cup
    {JsonObject(t) : t \in ObjectTypes}
RichBlocks ==
    {Json("list", "none", FALSE, l) : l \in ItemLists} \cup
    {Json("object", t, TRUE, l) : t \in {"none", "Product"}, l \in ItemLists}

\* The script blocks of a page in document order; at most one of them is a
\* list or a graph container.
Pages ==
    UNION {{p \in [1..n -> SimpleBlocks \cup RichBlocks] :
                Cardinality({b \in 1..n : p[b] \in RichBlocks}) <= 1} :
           n \in 0..MaxBlocks}

\* What an extractor hands back: None, or the object it found, named by its
\* place on the page (<<block>> or <<block, item>>).
NoPath == <<>>
Extracted(raised, ret) == [raised |-> raised, ret |-> ret]

\* for item in data: if item.get("@type") in [...]: return item
\* (item.get on something that is not a dict raises AttributeError)
RECURSIVE ScanUnguarded(_, _)
ScanUnguarded(items, i) ==
    IF i > Len(items) THEN [raised |-> None, at |-> 0]
    ELSE IF items[i].kind # "object" THEN [raised |-> "AttributeError", at |-> 0]
    ELSE IF items[i].type \in RecognizedTypes THEN [raised |-> None, at |-> i]
    ELSE ScanUnguarded(items, i + 1)

\* for item in data: if isinstance(item, dict) and item.get("@type") in [...]
RECURSIVE ScanGuarded(_, _)
ScanGuarded(items, i) ==
    IF i > Len(items) THEN [raised |-> None, at |-> 0]
    ELSE IF items[i].kind = "object" /\ items[i].type \in RecognizedTypes
         THEN [raised |-> None, at |-> i]
         ELSE ScanGuarded(items, i + 1)

\* PlaywrightBrowserAdapter.extract_json_ld, from block b on. Only
\* json.JSONDecodeError is caught (and the block skipped); a list is
\* scanned item by item, anything else is asked for its "@type".
RECURSIVE ExtractJsonLdFrom(_, _)
ExtractJsonLdFrom(page, b) ==
    IF b > Len(page) THEN Extracted(None, NoPath)
    ELSE LET data == page[b] IN
         CASE data.kind \in {"empty", "malformed"} -> ExtractJsonLdFrom(page, b + 1)
           [] data.kind = "list" ->
                LET r == ScanUnguarded(data.items, 1) IN
                IF r.raised # None THEN Extracted(r.raised, NoPath)
                ELSE IF r.at # 0 THEN Extracted(None, <<b, r.at>>)
                ELSE ExtractJsonLdFrom(page, b + 1)
           [] data.kind = "object" ->
                IF data.type \in RecognizedTypes THEN Extracted(None, <<b>>)
                ELSE ExtractJsonLdFrom(page, b + 1)
           [] OTHER -> Extracted("AttributeError", NoPath)

extract_json_ld(page) == ExtractJsonLdFrom(page, 1)

\* RiachueloScraper._extract_json_ld, from block b on. The whole loop sits
\* in one try: any exception is printed and None is returned.
RECURSIVE ScraperExtractJsonLdFrom(_, _)
ScraperExtractJsonLdFrom(page, b) ==
    IF b > Len(page) THEN Extracted(None, NoPath)
    ELSE LET data == page[b] IN
         CASE data.kind = "empty" -> ScraperExtractJsonLdFrom(page, b + 1)
           [] data.kind = "malformed" -> Extracted(None, NoPath)
           [] data.kind = "object" ->
                IF data.type \in RecognizedTypes THEN Extracted(None, <<b>>)
                ELSE IF data.graph
                THEN LET r == ScanUnguarded(data.items, 1) IN
                     IF r.raised # None THEN Extracted(None, NoPath)
                     ELSE IF r.at # 0 THEN Extracted(None, <<b, r.at>>)
                     ELSE ScraperExtractJsonLdFrom(page, b + 1)
                ELSE ScraperExtractJsonLdFrom(page, b + 1)
           [] data.kind = "list" ->
                LET r == ScanGuarded(data.items, 1) IN
                IF r.at # 0 THEN Extracted(None, <<b, r.at>>)
                ELSE ScraperExtractJsonLdFrom(page, b + 1)
           [] OTHER -> ScraperExtractJsonLdFrom(page, b + 1)

RiachueloScraper_extract_json_ld(page) == ScraperExtractJsonLdFrom(page, 1)

\* A routine call as it is recorded. The routines keep no state, so a
\* behaviour applies one routine to one input.
FnCall(fn, in, out) == [fn |-> fn, in |-> in, out |-> out]

BrowserExtractJsonLd ==
    /\ fnCall = NoCall
    /\ \E page \in Pages :
         fnCall' = FnCall("PlaywrightBrowserAdapter.extract_json_ld", page,
                          extract_json_ld(page))
    /\ UNCHANGED <<ucVars, adVars, stVars>>

ScraperExtractJsonLd ==
    /\ fnCall = NoCall
    /\ \E page \in Pages :
         fnCall' = FnCall("RiachueloScraper._extract_json_ld", page,
                          RiachueloScraper_extract_json_ld(page))
    /\ UNCHANGED <<ucVars, adVars, stVars>>

\* ---------------------------------------------------------- ClaudeAIAdapter
\* A reply text is a sequence of tokens: the fence, a language tag, white
\* space, and the pieces of JSON texts.
\* three backticks
Fence == "<fence>"
Newline == "\n"
Whitespace == {" ", Newline}

RECURSIVE LStrip(_)
LStrip(s) == IF s # <<>> /\ Head(s) \in Whitespace THEN LStrip(Tail(s)) ELSE s
RECURSIVE RStrip(_)
RStrip(s) ==
    IF s # <<>> /\ s[Len(s)] \in Whitespace THEN RStrip(SubSeq(s, 1, Len(s) - 1)) ELSE s
\* str.strip()
Strip(s) == RStrip(LStrip(s))
\* str.find(tok): the first position, 0 when there is none (Python: -1)
Find(s, tok) ==
    LET I == {i \in 1..Len(s) : s[i] = tok}
    IN IF I = {} THEN 0 ELSE CHOOSE i \in I : \A j \in I : i <= j

\* The JSON documents of the model, without surrounding white space, and the
\* kind of value each decodes to.
JsonDocs ==
    {<<"{'fit': 'slim'}">>, <<"{", Newline, "'fit': 'slim'", Newline, "}">>,
     <<"[1, 2]">>, <<"42">>, <<"null">>, <<"'", Fence, "'">>}
KindOfDoc(d) ==
    CASE d[1] \in {"{'fit': 'slim'}", "{"} -> "object"
      [] d[1] = "[1, 2]" -> "list"
      [] d[1] = "null" -> "null"
      [] OTHER -> "scalar"
\* the same object written on one line or on three
ValueOfDoc(d) == IF KindOfDoc(d) = "object" THEN <<"{'fit': 'slim'}">> ELSE d

NoValue == [kind |-> "none", doc |-> <<>>]
\* json.loads: white space around the document is allowed, anything else
\* that is not exactly one document raises JSONDecodeError.
JsonLoads(s) ==
    IF Strip(s) \in JsonDocs
    THEN [raised |-> None,
          value |-> [kind |-> KindOfDoc(Strip(s)), doc |-> ValueOfDoc(Strip(s))]]
    ELSE [raised |-> "JSONDecodeError", value |-> NoValue]

\* Mutant: the closing fence is left in place.
ParseJsonResponse_KeepClosingFence(response_text) ==
    LET cleaned == Strip(response_text)
        first_newline == Find(cleaned, Newline)
        opened == IF first_newline # 0
                  THEN SubSeq(cleaned, first_newline + 1, Len(cleaned))
                  ELSE cleaned
    IN IF cleaned # <<>> /\ cleaned[1] = Fence
       THEN JsonLoads(Strip(opened))
       ELSE JsonLoads(Strip(cleaned))

\* ClaudeAIAdapter._parse_json_response
ParseJsonResponse(response_text) ==
    LET cleaned == Strip(response_text)
        first_newline == Find(cleaned, Newline)
        opened == IF first_newline # 0
                  THEN SubSeq(cleaned, first_newline + 1, Len(cleaned))
                  ELSE cleaned
        closed == IF opened # <<>> /\ opened[Len(opened)] = Fence
                  THEN SubSeq(opened, 1, Len(opened) - 1)
                  ELSE opened
    IN IF cleaned # <<>> /\ cleaned[1] = Fence
       THEN JsonLoads(Strip(closed))
       ELSE JsonLoads(Strip(cleaned))

\* Texts a model replies with: a JSON document, maybe with white space
\* around it, or something that is no JSON document.
Paddings == {<<>>, <<" ">>, <<Newline>>}
JsonTexts == {pre \o d \o post : pre \in Paddings, d \in JsonDocs, post \in Paddings}
NotJsonTexts ==
    {<<>>, <<"{'fit': ">>, <<"Here is the JSON:", Newline, "{'fit': 'slim'}">>}

\* How a reply wraps its text: bare, or in a fenced code block.
Wrappings ==
    [fenced : {FALSE}, pre : Paddings, tag : {<<>>}, gap : {<<>>}, post : Paddings] \cup
    [fenced : {TRUE}, pre : Paddings, tag : {<<>>, <<"json">>},
     gap : {<<>>, <<Newline>>}, post : Paddings]
Wrap(t, w) ==
    IF w.fenced
    THEN w.pre \o <<Fence>> \o w.tag \o <<Newline>> \o t \o w.gap \o <<Fence>> \o w.post
    ELSE w.pre \o t \o w.post

ClaudeParseJsonResponse ==
    /\ fnCall = NoCall
    /\ \E t \in JsonTexts \cup NotJsonTexts, w \in Wrappings :
         fnCall' = FnCall("ClaudeAIAdapter._parse_json_response",
                          [text |-> t, wrapping |-> w],
                          ParseJsonResponse(Wrap(t, w)))
    /\ UNCHANGED <<ucVars, adVars, stVars>>

\* What messages.create does: raise an API error, raise something else,
\* answer without a content block, or answer with a text.
ApiOutcomes ==
    [kind : {"APIError", "other_error", "no_content"}, text : {<<>>}] \cup
    [kind : {"text"},
     text : {Wrap(t, w) : t \in JsonDocs \cup NotJsonTexts, w \in Wrappings}]

\* ClaudeAIAdapter.complete: every exception of the try block is re-raised
\* as AIGatewayException; otherwise the decoded value is returned as it is.
Complete(api) ==
    IF api.kind # "text"
    THEN [raised |-> "AIGatewayException", value |-> NoValue]
    ELSE LET r == ParseJsonResponse(api.text) IN
         IF r.raised # None
         THEN [raised |-> "AIGatewayException", value |-> NoValue]
         ELSE r

ClaudeComplete ==
    /\ fnCall = NoCall
    /\ \E api \in ApiOutcomes :
         fnCall' = FnCall("ClaudeAIAdapter.complete", api, Complete(api))
    /\ UNCHANGED <<ucVars, adVars, stVars>>

\* ------------------------------------------------------ the stage parsers
\* A decoded reply is a mapping from the keys it carries to what they hold:
\* "value" is a value of the type the stage's schema asks for.
ValueKinds == {"value"}
ExtraKey == "confidence"

AttributesKeys ==
    {"sleeve_type", "neckline", "fit", "closure_type", "pattern", "heel_height",
     "toe_style", "uv_protection", "material_parsed", "care_instructions",
     "key_features"}
CategorizationKeys ==
    {"occasions", "seasons", "style_tags", "target_audience", "search_keywords",
     "complementary_categories"}
ContentKeys ==
    {"seo_title", "meta_description", "short_description", "marketing_highlights",
     "image_alt_text"}

Replies(keys) == UNION {[K -> ValueKinds] : K \in SUBSET (keys \cup {ExtraKey})}

\* A reply that carries every key of the schema, some of them holding null.
NullReplies(keys) == [keys -> {"value", "null"}] \ [keys -> {"value"}]
StageReplies(keys) == Replies(keys) \cup NullReplies(keys)

\* Mutant: the default is dropped, as in response.get(key).
Get_IgnoresDefault(response, key, default) ==
    IF key \in DOMAIN response /\ response[key] # "null" THEN response[key] ELSE None

\* response.get(key, default); a key holding null gives None
Get(response, key, default) ==
    IF key \in DOMAIN response
    THEN IF response[key] = "null" THEN None ELSE response[key]
    ELSE default

\* "if data:" followed by the construction of the nested record
Nested(data) == IF data \in {None, "empty"} THEN None ELSE data

\* ExtractAttributesAction._parse_response
ParseAttributes(response) ==
    [f \in AttributesKeys |->
        CASE f = "material_parsed" -> Nested(Get(response, "material_parsed", None))
          [] f = "key_features" -> Get(response, "key_features", "empty")
          [] OTHER -> Get(response, f, None)]

\* CategorizeProductAction._parse_response
ParseCategorization(response) ==
    [f \in CategorizationKeys |->
        CASE f = "target_audience" -> Nested(Get(response, "target_audience", "empty"))
          [] OTHER -> Get(response, f, "empty")]

\* GenerateContentAction._parse_response
ParseContent(response) ==
    [f \in ContentKeys |->
        CASE f = "marketing_highlights" -> Get(response, "marketing_highlights", "empty")
          [] OTHER -> Get(response, f, None)]

\* The fields an action passes to len() for its log line.
MeasuredFields(stage) ==
    CASE stage = "attributes" -> {"key_features"}
      [] stage = "categorization" -> {"occasions", "search_keywords"}
      [] OTHER -> {"marketing_highlights"}

ParseStage(stage, response) ==
    CASE stage = "attributes" -> ParseAttributes(response)
      [] stage = "categorization" -> ParseCategorization(response)
      [] OTHER -> ParseContent(response)

\* An action's apply once ai.complete returned this mapping: parse, then
\* log the lengths; and what the use case's apply does with the outcome.
StageOnReply(stage, response) ==
    LET parsed == ParseStage(stage, response)
        exc == IF \E f \in MeasuredFields(stage) : parsed[f] = None
               THEN "TypeError" ELSE None
    IN [exc |-> exc,
        value |-> IF exc = None THEN parsed ELSE [f \in {} |-> None],
        response |-> IF exc = None THEN NoResult ELSE EnrichExcept(exc)]

ExtractAttributesOnReply ==
    /\ fnCall = NoCall
    /\ \E response \in StageReplies(AttributesKeys) :
         fnCall' = FnCall("ExtractAttributesAction.apply", response,
                          StageOnReply("attributes", response))
    /\ UNCHANGED <<ucVars, adVars, stVars>>

CategorizeProductOnReply ==
    /\ fnCall = NoCall
    /\ \E response \in StageReplies(CategorizationKeys) :
         fnCall' = FnCall("CategorizeProductAction.apply", response,
                          StageOnReply("categorization", response))
    /\ UNCHANGED <<ucVars, adVars, stVars>>

GenerateContentOnReply ==
    /\ fnCall = NoCall
    /\ \E response \in StageReplies(ContentKeys) :
         fnCall' = FnCall("GenerateContentAction.apply", response,
                          StageOnReply("content", response))
    /\ UNCHANGED <<ucVars, adVars, stVars>>

\* ------------------------------------------------------------------ Product
\* Price strings as the extraction formats them: prefix and raw number.
Prices == {NoStr, Str(<<"R$", "99.90">>), Str(<<"R$", "99.9">>), Str(<<"R$", "129.90">>)}

\* Product.has_discount: an absent price is None, and None != "..." is True.
has_discount(price, original_price) == original_price # NoStr /\ original_price # price

ProductHasDiscount ==
    /\ fnCall = NoCall
    /\ \E price \in Prices, original_price \in Prices :
         fnCall' = FnCall("Product.has_discount",
                          [price |-> price, original_price |-> original_price],
                          has_discount(price, original_price))
    /\ UNCHANGED <<ucVars, adVars, stVars>>

\* ------------------------------------------------------------- field: sizes
\* variants of a product group
MaxVariants == 3

\* A size is a str spelled character by character, so that int() and the
\* ordering of str are computed.
Digits == <<"0", "1", "2", "3", "4", "5", "6", "7", "8", "9">>
IsDigit(c) == \E d \in 1..Len(Digits) : Digits[d] = c
DigitValue(c) == (CHOOSE d \in 1..Len(Digits) : Digits[d] = c) - 1
\* ord(): digits come before capital letters
Ord(c) == IF IsDigit(c) THEN 48 + DigitValue(c)
          ELSE CASE c = "G" -> 71 [] c = "M" -> 77 [] c = "P" -> 80 [] OTHER -> 88

\* int(x) raises ValueError unless x spells a number
IsInt(x) == x # <<>> /\ \A i \in 1..Len(x) : IsDigit(x[i])
RECURSIVE IntOf(_)
IntOf(x) ==
    IF x = <<>> THEN 0
    ELSE IntOf(SubSeq(x, 1, Len(x) - 1)) * 10 + DigitValue(x[Len(x)])

\* a < b on str
RECURSIVE StrLess(_, _)
StrLess(a, b) ==
    IF b = <<>> THEN FALSE
    ELSE IF a = <<>> THEN TRUE
    ELSE IF Ord(Head(a)) # Ord(Head(b)) THEN Ord(Head(a)) < Ord(Head(b))
    ELSE StrLess(Tail(a), Tail(b))

\* The comparison sorted() makes: on int(x) with the key, on x without.
Less(mode, a, b) == IF mode = "int" THEN IntOf(a) < IntOf(b) ELSE StrLess(a, b)

\* sorted() is stable: an element goes behind those that are not greater.
RECURSIVE InsertSorted(_, _, _)
InsertSorted(sorted, x, mode) ==
    IF sorted = <<>> THEN <<x>>
    ELSE IF Less(mode, x, Head(sorted)) THEN <<x>> \o sorted
    ELSE <<Head(sorted)>> \o InsertSorted(Tail(sorted), x, mode)
RECURSIVE Sorted(_, _)
Sorted(xs, mode) ==
    IF xs = <<>> THEN <<>>
    ELSE InsertSorted(Sorted(SubSeq(xs, 1, Len(xs) - 1), mode), xs[Len(xs)], mode)

\* Mutant: the sizes are sorted as text even when all of them are numbers.
SortMode_AlwaysText(sizes) == "str"

\* try: sorted(sizes, key=lambda x: int(x)) / except ValueError: sorted(sizes)
SortMode(sizes) == IF \A i \in 1..Len(sizes) : IsInt(sizes[i]) THEN "int" ELSE "str"

\* for variant in variants: size = variant.get("size");
\* if size and size not in sizes: sizes.append(size)
RECURSIVE CollectSizes(_, _, _)
CollectSizes(variants, i, sizes) ==
    IF i > Len(variants) THEN sizes
    ELSE LET size == variants[i] IN
         IF StrTruthy(size) /\ ~\E k \in 1..Len(sizes) : sizes[k] = size.val
         THEN CollectSizes(variants, i + 1, Append(sizes, size.val))
         ELSE CollectSizes(variants, i + 1, sizes)

NoSizes == [some |-> FALSE, val |-> <<>>]

\* RiachueloEcommerceAdapter._extract_sizes (the action of the same name and
\* the scraper carry the same statements)
extract_sizes(json_ld_data) ==
    IF ~json_ld_data.present \/ json_ld_data.hasVariant = "absent" THEN NoSizes
    ELSE LET collected == IF json_ld_data.hasVariant = "list"
                          THEN CollectSizes(json_ld_data.variants, 1, <<>>)
                          ELSE <<>>
             sizes == Sorted(collected, SortMode(collected))
         IN IF sizes # <<>> THEN [some |-> TRUE, val |-> sizes] ELSE NoSizes

\* The size of a variant: none, empty, or a text.
SizeValues ==
    {NoStr, Str(<<>>), Str(<<"1">>), Str(<<"2">>), Str(<<"1", "0">>),
     Str(<<"M">>), Str(<<"G">>)}
VariantLists == UNION {[1..n -> SizeValues] : n \in 0..MaxVariants}
SizePayloads ==
    {[present |-> FALSE, hasVariant |-> "absent", variants |-> <<>>],
     [present |-> TRUE, hasVariant |-> "absent", variants |-> <<>>],
     [present |-> TRUE, hasVariant |-> "not_a_list", variants |-> <<>>]} \cup
    {[present |-> TRUE, hasVariant |-> "list", variants |-> v] : v \in VariantLists}

AdapterExtractSizes ==
    /\ fnCall = NoCall
    /\ \E json_ld_data \in SizePayloads :
         fnCall' = FnCall("RiachueloEcommerceAdapter._extract_sizes", json_ld_data,
                          extract_sizes(json_ld_data))
    /\ UNCHANGED <<ucVars, adVars, stVars>>

\* -------------------------------------------------------------- field: name
NAME_SELECTORS == <<"h1", "[data-testid='product-name']", "[class*='ProductName']">>

\* The "name" of the structured data: no structured data, no such key (or
\* null), or a text; and what a name selector finds: no element, or the
\* text of the element.
NameTexts == {<<>>, <<" ">>, <<"Camisa Polo">>, <<" ", "Camiseta", Newline>>}
NamePayloads ==
    {[present |-> FALSE, name |-> NoStr], [present |-> TRUE, name |-> NoStr]} \cup
    {[present |-> TRUE, name |-> Str(t)] : t \in NameTexts \ {<<" ", "Camiseta", Newline>>}}
NameDoms == [1..Len(NAME_SELECTORS) -> {NoStr} \cup {Str(t) : t \in NameTexts}]

\* the loop over NAME_SELECTORS from selector i on
RECURSIVE NameFromDom(_, _)
NameFromDom(dom, i) ==
    IF i > Len(NAME_SELECTORS) THEN NoStr
    ELSE IF dom[i].some /\ Strip(dom[i].val) # <<>> THEN Str(Strip(dom[i].val))
    ELSE NameFromDom(dom, i + 1)

\* RiachueloEcommerceAdapter._extract_name
extract_name(json_ld_data, dom) ==
    IF json_ld_data.present /\ StrTruthy(json_ld_data.name)
    THEN json_ld_data.name
    ELSE NameFromDom(dom, 1)

UnknownProduct == <<"Unknown Product">>

\* Mutant: the name is stored as resolved, without the sentinel.
ProductName_NoSentinel(name) == name.val

\* Product(name=name or "Unknown Product", ...)
ProductName(name) == IF StrTruthy(name) THEN name.val ELSE UnknownProduct

AdapterExtractName ==
    /\ fnCall = NoCall
    /\ \E json_ld_data \in NamePayloads, dom \in NameDoms :
         fnCall' = FnCall("RiachueloEcommerceAdapter.extract_product_details",
                          [json_ld_data |-> json_ld_data, dom |-> dom],
                          [name |-> ProductName(extract_name(json_ld_data, dom))])
    /\ UNCHANGED <<ucVars, adVars, stVars>>

\* ---------------------------------------------------------- field: category
\* breadcrumb links of a page
MaxLinks == 3
BreadcrumbSeparator == " > "

\* The "category" of the structured data: no structured data, no such key,
\* or the key holding null, an empty text or a text.
CategoryPayloads ==
    {[present |-> FALSE, hasCategory |-> FALSE, category |-> NoStr],
     [present |-> TRUE, hasCategory |-> FALSE, category |-> NoStr]} \cup
    {[present |-> TRUE, hasCategory |-> TRUE, category |-> c] :
        c \in {NoStr, Str(<<>>), Str(<<"Moda Masculina">>)}}

\* The texts of the links "nav[aria-label='breadcrumb'] a" finds.
LinkTexts == {<<>>, <<" ">>, <<"Home">>, <<" ", "Roupas", Newline>>, <<"Camisetas">>}
Breadcrumbs == UNION {[1..n -> LinkTexts] : n \in 0..MaxLinks}

\* for bc in breadcrumbs[1:]: text = get_element_text(bc).strip();
\* if text: category_parts.append(text)
RECURSIVE CategoryParts(_, _)
CategoryParts(breadcrumbs, i) ==
    IF i > Len(breadcrumbs) THEN <<>>
    ELSE LET text == Strip(breadcrumbs[i]) IN
         (IF text # <<>> THEN <<text>> ELSE <<>>) \o CategoryParts(breadcrumbs, i + 1)

\* " > ".join(category_parts)
RECURSIVE Join(_)
Join(parts) ==
    IF parts = <<>> THEN <<>>
    ELSE IF Len(parts) = 1 THEN parts[1]
    ELSE parts[1] \o <<BreadcrumbSeparator>> \o Join(Tail(parts))

\* the breadcrumb tier of _extract_category
CategoryFromBreadcrumbs(breadcrumbs) ==
    LET category_parts == IF breadcrumbs # <<>> THEN CategoryParts(breadcrumbs, 2)
                          ELSE <<>>
    IN IF category_parts # <<>> THEN Str(Join(category_parts)) ELSE NoStr

\* RiachueloEcommerceAdapter._extract_category: the value under the key is
\* returned as it is, whatever it holds.
extract_category(json_ld_data, breadcrumbs) ==
    IF json_ld_data.present /\ json_ld_data.hasCategory
    THEN json_ld_data.category
    ELSE CategoryFromBreadcrumbs(breadcrumbs)

AdapterExtractCategory ==
    /\ fnCall = NoCall
    /\ \E json_ld_data \in CategoryPayloads, breadcrumbs \in Breadcrumbs :
         fnCall' = FnCall("RiachueloEcommerceAdapter._extract_category",
                          [json_ld_data |-> json_ld_data, breadcrumbs |-> breadcrumbs],
                          extract_category(json_ld_data, breadcrumbs))
    /\ UNCHANGED <<ucVars, adVars, stVars>>

\* ---------------------------------------------------- field: original price
\* A value under a key of offers: the key is missing, or it holds null, a
\* number or a text. A number is kept as its decimal spelling.
NoKey == [kind |-> "missing", val |-> <<>>]
Null == [kind |-> "null", val |-> <<>>]
Num(v) == [kind |-> "num", val |-> v]
Text(v) == [kind |-> "str", val |-> v]
OfferValues ==
    {NoKey, Null, Num(<<"0">>), Num(<<"199">>), Text(<<>>), Text(<<"199">>),
     Text(<<"259.90">>)}

\* offers.get(key): a missing key gives None
OfferGet(offers, key) == IF offers[key] = NoKey THEN Null ELSE offers[key]
\* offers.get(key, ""): a missing key gives the empty text
OfferGetOrEmpty(offers, key) == IF offers[key] = NoKey THEN Text(<<>>) ELSE offers[key]

\* bool(v)
ValueTruthy(v) ==
    CASE v.kind = "num" -> v.val # <<"0">>
      [] v.kind = "str" -> v.val # <<>>
      [] OTHER -> FALSE
\* str(v)
PyStr(v) == IF v.kind \in {"num", "str"} THEN v.val ELSE <<"None">>

CurrencyPrefix == "R$"

\* Mutant: the two prices are compared as values, a number never equal to
\* a text.
DiffersFromLowPrice_Raw(list_price, offers) ==
    list_price # OfferGetOrEmpty(offers, "lowPrice")

\* str(list_price) != str(offers.get("lowPrice", ""))
DiffersFromLowPrice(list_price, offers) ==
    PyStr(list_price) # PyStr(OfferGetOrEmpty(offers, "lowPrice"))

\* The "offers" of the structured data: no structured data, no such key, a
\* list of offers, or a single offer.
NoOffer == [highPrice |-> NoKey, lowPrice |-> NoKey]
OfferPayloads ==
    {[present |-> FALSE, offers |-> "absent", offer |-> NoOffer],
     [present |-> TRUE, offers |-> "absent", offer |-> NoOffer],
     [present |-> TRUE, offers |-> "list", offer |-> NoOffer]} \cup
    {[present |-> TRUE, offers |-> "dict", offer |-> o] :
        o \in [highPrice : OfferValues, lowPrice : OfferValues]}

\* RiachueloEcommerceAdapter._extract_original_price
extract_original_price(json_ld_data) ==
    IF ~json_ld_data.present \/ json_ld_data.offers = "absent" THEN NoStr
    ELSE IF json_ld_data.offers = "dict"
         THEN LET list_price == OfferGet(json_ld_data.offer, "highPrice") IN
              IF ValueTruthy(list_price)
                 /\ DiffersFromLowPrice(list_price, json_ld_data.offer)
              THEN Str(<<CurrencyPrefix>> \o PyStr(list_price))
              ELSE NoStr
         ELSE NoStr

AdapterExtractOriginalPrice ==
    /\ fnCall = NoCall
    /\ \E json_ld_data \in OfferPayloads :
         fnCall' = FnCall("RiachueloEcommerceAdapter._extract_original_price",
                          json_ld_data, extract_original_price(json_ld_data))
    /\ UNCHANGED <<ucVars, adVars, stVars>>

\* --------------------------------------------------------------- field: sku
\* pieces a page URL is made of
MaxUrlPieces == 4
\* the number of digits the pattern -(\d{8})_ asks for
SkuDigits == 8

\* A URL is a str spelled character by character, built from a few pieces:
\* separators, runs of one digit of several lengths, and a whole "-sku_".
Run(d, n) == [i \in 1..n |-> d]
UrlPieces ==
    {<<"-">>, <<"_">>, <<"/">>, Run("1", SkuDigits - 1), Run("1", SkuDigits),
     Run("1", SkuDigits + 1), <<"-">> \o Run("2", SkuDigits) \o <<"_">>}
RECURSIVE Flatten(_)
Flatten(pieces) == IF pieces = <<>> THEN <<>> ELSE Head(pieces) \o Flatten(Tail(pieces))
Urls == {Flatten(ps) : ps \in UNION {[1..n -> UrlPieces] : n \in 0..MaxUrlPieces}}

\* The "sku" of the structured data: no structured data, no such key (or
\* null), an empty text, or a text.
SkuPayloads ==
    {[present |-> FALSE, sku |-> NoStr], [present |-> TRUE, sku |-> NoStr],
     [present |-> TRUE, sku |-> Str(<<>>)], [present |-> TRUE, sku |-> Str(<<"4", "2">>)]}

DigitsAt(url, i, n) == i + n - 1 <= Len(url) /\ \A j \in i..(i + n - 1) : IsDigit(url[j])

\* Mutant: the pattern without its leading hyphen, (\d{8})_ .
MatchesAt_NoHyphen(url, i) ==
    /\ i >= 1
    /\ i + SkuDigits + 1 <= Len(url)
    /\ DigitsAt(url, i + 1, SkuDigits)
    /\ url[i + SkuDigits + 1] = "_"

\* the pattern -(\d{8})_ matches at position i
MatchesAt(url, i) ==
    /\ i + SkuDigits + 1 <= Len(url)
    /\ url[i] = "-"
    /\ DigitsAt(url, i + 1, SkuDigits)
    /\ url[i + SkuDigits + 1] = "_"

\* re.search: group 1 of the leftmost match, or no match
Search(url) ==
    LET at == {i \in 1..Len(url) : MatchesAt(url, i)} IN
    IF at = {} THEN NoStr
    ELSE LET i == CHOOSE k \in at : \A m \in at : k <= m
         IN Str(SubSeq(url, i + 1, i + SkuDigits))

\* RiachueloEcommerceAdapter._extract_sku
extract_sku(json_ld_data, current_url) ==
    IF json_ld_data.present /\ StrTruthy(json_ld_data.sku) THEN json_ld_data.sku
    ELSE IF \E i \in 1..Len(current_url) : current_url[i] = "_"
         THEN Search(current_url)
         ELSE NoStr

AdapterExtractSku ==
    /\ fnCall = NoCall
    /\ \E json_ld_data \in SkuPayloads, current_url \in Urls :
         fnCall' = FnCall("RiachueloEcommerceAdapter._extract_sku",
                          [json_ld_data |-> json_ld_data, current_url |-> current_url],
                          extract_sku(json_ld_data, current_url))
    /\ UNCHANGED <<ucVars, adVars, stVars>>

\* ------------------------------------------- the care_instructions column
\* elements of a care_instructions list, and characters of an element
MaxElements == 2
MaxChars == 2

\* An instruction is a non-empty str spelled character by character.
CareAlphabet == {"a", ",", " "}
Instructions == UNION {[1..n -> CareAlphabet] : n \in 1..MaxChars}
CareLists == UNION {[1..n -> Instructions] : n \in 0..MaxElements}

\* sep.join(parts)
RECURSIVE JoinWith(_, _)
JoinWith(sep, parts) ==
    IF parts = <<>> THEN <<>>
    ELSE IF Len(parts) = 1 THEN parts[1]
    ELSE parts[1] \o sep \o JoinWith(sep, Tail(parts))

\* the first position where sep occurs in s, 0 when there is none
FindSep(s, sep) ==
    LET I == {i \in 1..(Len(s) - Len(sep) + 1) : SubSeq(s, i, i + Len(sep) - 1) = sep}
    IN IF I = {} THEN 0 ELSE CHOOSE i \in I : \A j \in I : i <= j

\* s.split(sep)
RECURSIVE Split(_, _)
Split(s, sep) ==
    LET i == FindSep(s, sep) IN
    IF i = 0 THEN <<s>>
    ELSE <<SubSeq(s, 1, i - 1)>> \o Split(SubSeq(s, i + Len(sep), Len(s)), sep)

NoList == [some |-> FALSE, val |-> <<>>]
SomeList(l) == [some |-> TRUE, val |-> l]

\* save: ", ".join(attrs.care_instructions) if attrs.care_instructions else None
CareColumn(care_instructions) ==
    IF care_instructions.some /\ care_instructions.val # <<>>
    THEN Str(JoinWith(<<",", " ">>, care_instructions.val))
    ELSE NoStr

\* _row_to_enrichment: [s.strip() for s in row.care_instructions.split(",")]
CareFromRow(column) ==
    IF StrTruthy(column)
    THEN LET parts == Split(column.val, <<",">>)
         IN SomeList([i \in 1..Len(parts) |-> Strip(parts[i])])
    ELSE NoList

\* PostgresProductQueryAdapter: row.care_instructions.split(", ")
CareFromQueryRow(column) ==
    IF StrTruthy(column) THEN SomeList(Split(column.val, <<",", " ">>)) ELSE NoList

\* An enrichment is saved and read back: what becomes of care_instructions
\* in find_by_product_id and in the products query.
EnrichmentCareRoundTrip ==
    /\ fnCall = NoCall
    /\ \E care_instructions \in {NoList} \cup {SomeList(l) : l \in CareLists} :
         LET column == CareColumn(care_instructions) IN
         fnCall' = FnCall("PostgresEnrichmentRepositoryAdapter.care_instructions",
                          care_instructions,
                          [column |-> column, found |-> CareFromRow(column),
                           queried |-> CareFromQueryRow(column)])
    /\ UNCHANGED <<ucVars, adVars, stVars>>

\* ------------------------------------------------- the products repository
\* saves of products in one behaviour
MaxProductSaves == 2

NoDbCall == [fn |-> "none"]
NoScraper ==
    [with |-> "none", ended |-> "none", playwright |-> FALSE, browser |-> FALSE,
     context |-> FALSE, page |-> FALSE]
\* scraper.py is a script of its own: it uses no repository, and the
\* repositories are used where no such script runs.
NoScript == scraper = NoScraper
NoStore == productSeq = 0 /\ enrichmentRows = <<>> /\ dbCall = NoDbCall

\* the methods of the entity Product
ProductMethods ==
    {"set_enriched_data", "has_discount", "to_dict"}

StoreProducts ==
    [sku : {NoStr, Str(<<"15247848">>), Str(<<"15247849">>)},
     name : {<<"Camisa">>, <<"Camiseta">>}]

\* INSERT ... ON CONFLICT (sku) DO UPDATE SET ... RETURNING id, inside the
\* transaction: an id is drawn for the proposed row; a row with the same
\* sku is updated and keeps its id (a NULL sku conflicts with no row).
Upsert(rows, seq, product) ==
    LET same == {r \in rows : product.sku.some /\ r.sku = product.sku} IN
    IF same # {}
    THEN LET old == CHOOSE r \in same : TRUE IN
         [rows |-> (rows \ same) \cup {[old EXCEPT !.name = product.name]},
          id |-> old.id, seq |-> seq + 1]
    ELSE [rows |-> rows \cup {[id |-> seq + 1, sku |-> product.sku,
                               name |-> product.name]},
          id |-> seq + 1, seq |-> seq + 1]

\* product.set_id(row[0])
SetId == IF "set_id" \in ProductMethods THEN None ELSE "AttributeError"

\* PostgresProductRepositoryAdapter.save: the statement runs, the returned
\* row is there, the id is handed to the product, then the transaction is
\* committed; leaving the with block by an exception closes the connection
\* and rolls the transaction back.
ProductRepositorySave ==
    /\ NoScript
    /\ productSeq < MaxProductSaves
    /\ \E product \in StoreProducts :
         LET up == Upsert(productRows, productSeq, product) IN
         /\ productSeq' = up.seq
         /\ IF SetId = None
            THEN /\ productRows' = up.rows
                 /\ dbCall' = [fn |-> "PostgresProductRepositoryAdapter.save",
                               in |-> product,
                               out |-> [raised |-> None, sku |-> product.sku,
                                        name |-> product.name, id |-> <<up.id>>]]
            ELSE /\ productRows' = productRows
                 /\ dbCall' = [fn |-> "PostgresProductRepositoryAdapter.save",
                               in |-> product,
                               out |-> [raised |-> SetId, sku |-> product.sku,
                                        name |-> product.name, id |-> <<>>]]
    /\ UNCHANGED <<enrichmentRows, scraper, openResources, ucVars, adVars, fnCall>>

\* ---------------------------------------------- the enrichments repository
\* rows of product_enrichments, and the values of the clock
MaxEnrichmentRows == 2
MaxTime == 2

\* An enrichment to save: the product it is of and metadata.enriched_at;
\* <<>> is an enrichment without metadata.
NoTime == <<>>
StoreEnrichments ==
    [product_id : 1..MaxProductId,
     enriched_at : {NoTime} \cup {<<t>> : t \in 1..MaxTime}]

\* "enriched_at": meta.enriched_at if meta else None. The statement names
\* the column, so no default applies: the store keeps the NULL, or rejects
\* it when the column does not take one.
InsertOutcomes(enrichment) ==
    IF enrichment.enriched_at = NoTime THEN {None, "IntegrityError"} ELSE {None}

\* the row INSERT INTO product_enrichments adds
EnrichmentRow(rows, enrichment) ==
    [id |-> Len(rows) + 1, product_id |-> enrichment.product_id,
     enriched_at |-> enrichment.enriched_at]

\* PostgresEnrichmentRepositoryAdapter.save
EnrichmentRepositorySave ==
    /\ NoScript
    /\ Len(enrichmentRows) < MaxEnrichmentRows
    /\ \E enrichment \in StoreEnrichments :
       \E raised \in InsertOutcomes(enrichment) :
         /\ enrichmentRows' =
                IF raised = None
                THEN Append(enrichmentRows, EnrichmentRow(enrichmentRows, enrichment))
                ELSE enrichmentRows
         /\ dbCall' = [fn |-> "PostgresEnrichmentRepositoryAdapter.save",
                       in |-> enrichment, before |-> enrichmentRows,
                       out |-> [raised |-> raised]]
    /\ UNCHANGED <<productRows, productSeq, scraper, openResources, ucVars, adVars,
                   fnCall>>

\* WHERE product_id = :product_id
RowsOf(rows, product_id) ==
    {rows[i] : i \in {k \in 1..Len(rows) : rows[k].product_id = product_id}}

\* Mutant: ORDER BY enriched_at ASC.
FirstRanked_Ascending(found) ==
    LET timed == {r \in found : r.enriched_at # NoTime} IN
    IF timed # {}
    THEN {r \in timed : \A o \in timed : r.enriched_at[1] <= o.enriched_at[1]}
    ELSE found

\* ORDER BY enriched_at DESC: the rows that may come first. NULL sorts as
\* greater than every value, and rows that tie come in any order.
FirstRanked(found) ==
    LET untimed == {r \in found : r.enriched_at = NoTime} IN
    IF untimed # {} THEN untimed
    ELSE {r \in found : \A o \in found : r.enriched_at[1] >= o.enriched_at[1]}

NoEnrichment == [found |-> FALSE, product_id |-> 0, enriched_at |-> NoTime]
\* _row_to_enrichment, for the columns kept here
RowToEnrichment(row) ==
    [found |-> TRUE, product_id |-> row.product_id, enriched_at |-> row.enriched_at]

\* PostgresEnrichmentRepositoryAdapter.find_by_product_id
EnrichmentFindByProductId ==
    /\ NoScript
    /\ \E product_id \in 1..MaxProductId :
         LET found == RowsOf(enrichmentRows, product_id) IN
         \E out \in IF found = {} THEN {NoEnrichment}
                    ELSE {RowToEnrichment(r) : r \in FirstRanked(found)} :
            dbCall' = [fn |-> "PostgresEnrichmentRepositoryAdapter.find_by_product_id",
                       in |-> product_id, before |-> enrichmentRows, out |-> out]
    /\ UNCHANGED <<productRows, productSeq, enrichmentRows, scraper, openResources,
                   ucVars, adVars, fnCall>>

\* ------------------------------------------------- RiachueloScraper session
\* The steps of start(), in program order, with the field each one sets and
\* what it brings up.
StartSteps == <<"playwright", "browser", "context", "page">>
Resources == {"playwright", "browser", "context"}

\* start() up to the step that raises (none: to the end)
RECURSIVE Started(_, _)
Started(i, failAt) ==
    IF i > Len(StartSteps) \/ StartSteps[i] = failAt THEN {}
    ELSE {StartSteps[i]} \cup Started(i + 1, failAt)

\* with RiachueloScraper(...) as scraper: __enter__ calls start(); when
\* start() raises the with statement is left at once, its body and
\* __exit__ are not run.
ScraperEnter ==
    /\ NoScript /\ NoStore
    /\ \E failAt \in {None} \cup {StartSteps[i] : i \in 1..Len(StartSteps)} :
         LET done == Started(1, failAt) IN
         /\ scraper' = [with |-> IF failAt = None THEN "body" ELSE "left",
                        ended |-> IF failAt = None THEN "none" ELSE "exception",
                        playwright |-> "playwright" \in done,
                        browser |-> "browser" \in done,
                        context |-> "context" \in done,
                        page |-> "page" \in done]
         /\ openResources' = done \cap Resources
    /\ UNCHANGED <<productRows, productSeq, enrichmentRows, dbCall, ucVars, adVars,
                   fnCall>>

\* What a close step that returns takes down: closing the browser closes
\* its contexts, stopping the driver closes its browsers.
Closes(step) ==
    CASE step = "context" -> {"context"}
      [] step = "browser" -> {"browser", "context"}
      [] OTHER -> Resources

CloseSteps == <<"context", "browser", "playwright">>

\* close(): the three guarded calls in program order; the one that raises
\* ends close(), having taken its resource down or not.
RECURSIVE Close(_, _, _, _, _)
Close(self, open, i, failAt, released) ==
    IF i > Len(CloseSteps) THEN open
    ELSE LET step == CloseSteps[i] IN
         IF ~self[step] THEN Close(self, open, i + 1, failAt, released)
         ELSE IF step = failAt
              THEN IF released THEN open \ Closes(step) ELSE open
              ELSE Close(self, open \ Closes(step), i + 1, failAt, released)

\* The body of the with statement ends, normally or by an exception, and
\* __exit__ calls close().
ScraperExit ==
    /\ scraper.with = "body"
    /\ \E bodyRaises \in BOOLEAN, released \in BOOLEAN,
          failAt \in {None} \cup {CloseSteps[i] : i \in 1..Len(CloseSteps)} :
         /\ openResources' = Close(scraper, openResources, 1, failAt, released)
         /\ scraper' = [scraper EXCEPT
                            !.with = "left",
                            !.ended = IF bodyRaises \/ failAt # None
                                      THEN "exception" ELSE "normal"]
    /\ UNCHANGED <<productRows, productSeq, enrichmentRows, dbCall, ucVars, adVars,
                   fnCall>>

\* ------------------------------------------------------------ Spec (use cases)
Init ==
    /\ pc = "idle"
    /\ ucEnrich = NoUseCase
    /\ eInput = NoInput /\ eParts = NoParts /\ eSteps = <<>> /\ eResult = NoResult
    /\ sInput = NoScrape /\ sSteps = <<>> /\ sResult = NoResult
    /\ browserLog = <<>> /\ callLog = <<>> /\ lastLink = NoUrl
    /\ fnCall = NoCall
    /\ productRows = {} /\ productSeq = 0 /\ enrichmentRows = <<>> /\ dbCall = NoDbCall
    /\ scraper = NoScraper /\ openResources = {}

Next ==
    \/ EnrichProductUseCaseInit
    \/ EnrichApplyStart
    \/ ExtractAttributesApply
    \/ CategorizeProductApply
    \/ GenerateContentApply
    \/ EnrichPersist
    \/ Scrape

Spec == Init /\ [][Next]_vars

NextAdapter ==
    \/ AdapterNavigateToSearch
    \/ AdapterFindProductLink
    \/ AdapterNavigateToProduct
    \/ AdapterExtractProductDetails
    \/ AdapterNewPage

SpecAdapter == Init /\ [][NextAdapter]_vars

NextRoutines ==
    \/ BrowserExtractJsonLd
    \/ ScraperExtractJsonLd
    \/ ClaudeParseJsonResponse
    \/ ClaudeComplete
    \/ ExtractAttributesOnReply
    \/ CategorizeProductOnReply
    \/ GenerateContentOnReply
    \/ ProductHasDiscount
    \/ AdapterExtractSizes
    \/ AdapterExtractName
    \/ AdapterExtractCategory
    \/ AdapterExtractOriginalPrice
    \/ AdapterExtractSku
    \/ EnrichmentCareRoundTrip

SpecRoutines == Init /\ [][NextRoutines]_vars

\* ------------------------------------------- Spec (repositories and script)
NextInfra ==
    \/ ProductRepositorySave
    \/ EnrichmentRepositorySave
    \/ EnrichmentFindByProductId
    \/ ScraperEnter
    \/ ScraperExit

SpecInfra == Init /\ [][NextInfra]_vars

\* ------------------------------------------------------- claims under Spec
StepNames(log) == [i \in 1..Len(log) |-> log[i].step]
IsSave(e) == e.step = "save"
IsAICall(e) == e.step # "save"
AICalls(log) == StepNames(SelectSeq(log, IsAICall))
SaveCount(log) == Len(SelectSeq(log, IsSave))
IsPrefix(s, t) == Len(s) <= Len(t) /\ \A i \in 1..Len(s) : s[i] = t[i]
StageOrder == <<"attributes", "categorization", "content">>
Raised(log) == \E i \in 1..Len(log) : log[i].raised # None
EnrichReturned == pc = "idle" /\ eInput.product_data # "unset"

C2_AllStepsSucceedGivesSuccess ==
    (sInput.query # <<>> /\ sInput.world.fail = None) =>
        /\ sResult = [tag |-> "success", product |-> ExtractedProduct(sInput.query)]
        /\ StepNames(sSteps) = ScrapeStepSeq(sInput.repo)

\* C3: when link resolution raises product-not-found, the scrape returns the
\* error response product_not_found carrying the original query.
C3_NotFoundGivesNotFoundError ==
    (sInput.world.fail = "find_product_link"
        /\ sInput.world.exc = "ProductNotFoundException") =>
        sResult = [tag |-> "error", error_type |-> "product_not_found",
                   query |-> sInput.query]

\* C4: when an AI stage raises the AI-gateway error, enrich returns the error
\* response ai_error, the repository save is not invoked, and a success
\* response always carries all three sub-records.
C4_AIFailureAborts ==
    /\ (\E i \in 1..Len(eSteps) :
            IsAICall(eSteps[i]) /\ eSteps[i].raised = "AIGatewayException") =>
         /\ pc = "idle"
         /\ eResult = [tag |-> "error", error_type |-> "ai_error", step |-> "ai_call"]
         /\ SaveCount(eSteps) = 0
    /\ eResult.tag = "success" =>
         /\ eResult.enrichment.attributes.stage = "attributes"
         /\ eResult.enrichment.categorization.stage = "categorization"
         /\ eResult.enrichment.content.stage = "content"

C4_Witness ==
    /\ pc = "idle"
    /\ ucEnrich.repo /\ Truthy(eInput.product_id)
    /\ eSteps = <<[step |-> "attributes", raised |-> None],
                  [step |-> "categorization", raised |-> "AIGatewayException"]>>
    /\ eResult.error_type = "ai_error"

\* C5: the AI completions of one apply are issued in the order attributes,
\* categorization, content, each after the previous one returned, and a
\* successful enrich has issued exactly these three.
C5_ThreeCallsInOrder ==
    /\ IsPrefix(AICalls(eSteps), StageOrder)
    /\ \A i \in 1..Len(eSteps) : i < Len(AICalls(eSteps)) => eSteps[i].raised = None
    /\ eResult.tag = "success" => AICalls(eSteps) = StageOrder

C5_Witness ==
    /\ eResult.tag = "success"
    /\ AICalls(eSteps) = StageOrder

ThreeStagesSucceeded ==
    /\ pc = "idle"
    /\ Len(AICalls(eSteps)) = 3
    /\ \A i \in 1..3 : eSteps[i].raised = None

\* C6: after the three stages succeed the save is invoked exactly once if
\* and only if a repository is configured and a product identifier was
\* supplied, whatever integer it is; without an identifier the result is a
\* success and the save is not invoked.
C6_SaveIffRepoAndId ==
    ThreeStagesSucceeded =>
        /\ SaveCount(eSteps) = 1 <=> (ucEnrich.repo /\ eInput.product_id # NoId)
        /\ SaveCount(eSteps) <= 1
        /\ eInput.product_id = NoId => (eResult.tag = "success" /\ SaveCount(eSteps) = 0)

NoDuplicates(seq) == \A i, j \in 1..Len(seq) : i # j => seq[i] # seq[j]
OnlyLastRaised(log) == \A i \in 1..Len(log) : log[i].raised # None => i = Len(log)

\* C7: within one apply no step is invoked twice, and once a step raised no
\* later step is invoked and the error response is what is returned.
C7_NoRetryNoStepAfterFailure ==
    /\ NoDuplicates(StepNames(eSteps)) /\ OnlyLastRaised(eSteps)
    /\ Raised(eSteps) => (pc = "idle" /\ eResult.tag = "error")
    /\ NoDuplicates(StepNames(sSteps)) /\ OnlyLastRaised(sSteps)
    /\ IsPrefix(StepNames(eSteps), StageOrder \o <<"save">>)

C7_Witness ==
    /\ pc = "idle"
    /\ Len(eSteps) = 2
    /\ eSteps[2].raised # None
    /\ eResult.tag = "error"

\* ------------------------------------------------ claims under SpecAdapter
CallsOf(method) == {k \in 1..Len(callLog) : callLog[k].method = method}
OpsOf(c) == SubSeq(browserLog, c.from, c.to)
SearchUrlOf(query) == BASE_URL \o <<"/busca", "?q=">> \o query

\* C8: navigate_to_search issues, in this order, the home-page navigation,
\* a load wait, the navigation to search base + "?q=" + the raw query, a
\* load wait; it never starts with anything but the home page, and asks for
\* the search URL only as its third operation, after the home page loaded
\* and the wait returned.
C8_HomeBeforeSearch ==
    \A k \in CallsOf("navigate_to_search") :
        LET c == callLog[k]
            ops == OpsOf(c)
        IN /\ Len(ops) >= 1 /\ ops[1].op = "goto" /\ ops[1].url = BASE_URL
           /\ \A i \in 1..Len(ops) :
                (ops[i].op = "goto" /\ ops[i].url # BASE_URL) =>
                    /\ i = 3
                    /\ ops[i].url = SearchUrlOf(c.arg)
                    /\ ops[1] = Goto(BASE_URL, TRUE)
                    /\ ops[2] = Op("wait")
           /\ c.raised = None =>
                ops = <<Goto(BASE_URL, TRUE), Op("wait"),
                        Goto(SearchUrlOf(c.arg), TRUE), Op("wait")>>

C8_Witness ==
    \E k \in CallsOf("navigate_to_search") :
        /\ callLog[k].raised = None
        /\ Len(OpsOf(callLog[k])) = 4

\* Index of the latest navigation before position i of the log (0: none).
LastGotoBefore(i) ==
    LET G == {g \in 1..(i - 1) : browserLog[g].op = "goto"}
    IN IF G = {} THEN 0 ELSE CHOOSE g \in G : \A h \in G : h <= g
ByProductNavigation(g) ==
    \E k \in CallsOf("navigate_to_product") :
        callLog[k].from = g /\ callLog[k].raised = None

\* C9: a product-page navigation that returns has navigated to the given
\* URL, waited for load and scrolled to the bottom, in this order, with and
\* without debug capture; so whenever extraction is invoked on a page the
\* adapter navigated to, a load wait and then a scroll came in between.
C9_ScrollBeforeExtraction ==
    /\ \A k \in CallsOf("navigate_to_product") :
         callLog[k].raised = None =>
            SubSeq(OpsOf(callLog[k]), 1, 3) =
                <<Goto(callLog[k].arg, TRUE), Op("wait"), Op("scroll")>>
    /\ \A i \in 1..Len(browserLog) :
         (browserLog[i].op = "extract_json_ld" /\ ByProductNavigation(LastGotoBefore(i))) =>
            \E w, s \in (LastGotoBefore(i) + 1)..(i - 1) :
                w < s /\ browserLog[w].op = "wait" /\ browserLog[s].op = "scroll"

C9_Witness ==
    /\ Len(callLog) = 2
    /\ callLog[1].method = "navigate_to_product"
    /\ callLog[1].debug /\ callLog[1].raised = None
    /\ callLog[2].method = "extract_product_details"

Matched(dom) == {i \in DOMAIN dom : dom[i] # "no_match"}
Usable(dom) == {i \in Matched(dom) : StrTruthy(HrefOf(i, dom[i]))}
First(S) == CHOOSE i \in S : \A j \in S : i <= j

\* C10 as stated: the returned URL is built from the href of the element of
\* the first selector, in list order, that matches any element.
C10_FirstMatchingSelectorWins ==
    \A k \in CallsOf("find_product_link") :
        LET c == callLog[k] IN
        c.raised = None =>
            /\ Matched(c.dom) # {}
            /\ c.ret = AbsoluteUrl(HrefOf(First(Matched(c.dom)), c.dom[First(Matched(c.dom))]).val)

\* C10 amended: the selectors are tried in list order and the returned URL
\* is built from the href of the element of the first selector whose element
\* carries a non-empty href (absolute as it is, else prefixed with the base
\* URL). A selector that matches an element without href, or with an empty
\* one, is passed over and a later selector's element is used; not-found is
\* raised exactly when no selector yields an element with a non-empty href.
C10_FirstSelectorWithHrefWins ==
    \A k \in CallsOf("find_product_link") :
        LET c == callLog[k]
            u == Usable(c.dom)
        IN /\ c.raised = None <=> u # {}
           /\ u = {} => c.raised = "ProductNotFoundException"
           /\ u # {} =>
                LET href == HrefOf(First(u), c.dom[First(u)]).val IN
                c.ret = IF href[1] = "http" THEN href ELSE BASE_URL \o href

\* two selectors yield an href: the earlier one is the one used
C10_Witness ==
    \E k \in CallsOf("find_product_link") :
        /\ Cardinality(Usable(callLog[k].dom)) >= 2
        /\ First(Matched(callLog[k].dom)) \notin Usable(callLog[k].dom)
        /\ callLog[k].raised = None

\* C11 as stated: when the browser navigation of the search step or of the
\* product step fails, the scrape returns the error response navigation_error
\* for the query.
NavigationSteps == {"navigate_to_search", "navigate_to_product"}
C11_NavigationFailureGivesNavigationError ==
    (sInput.world.fail \in NavigationSteps /\ sInput.world.exc = PlaywrightError) =>
        sResult = [tag |-> "error", error_type |-> "navigation_error",
                   query |-> sInput.query]

\* ----------------------------------------------- claims under SpecRoutines
IsObjectOfType(v) == v.kind = "object" /\ v.type \in RecognizedTypes
FirstHit(items) ==
    LET H == {i \in 1..Len(items) : IsObjectOfType(items[i])}
    IN IF H = {} THEN 0 ELSE CHOOSE i \in H : \A j \in H : i <= j

\* The first recognized object of block b in document order: the block's own
\* object, else the first one in its list or in its @graph.
BlockHit(page, b) ==
    IF IsObjectOfType(page[b]) THEN <<b>>
    ELSE IF (page[b].kind = "list" \/ (page[b].kind = "object" /\ page[b].graph))
            /\ FirstHit(page[b].items) # 0
         THEN <<b, FirstHit(page[b].items)>>
         ELSE NoPath
FirstRecognized(page) ==
    LET H == {b \in 1..Len(page) : BlockHit(page, b) # NoPath}
    IN IF H = {} THEN NoPath ELSE BlockHit(page, CHOOSE b \in H : \A c \in H : b <= c)

\* a single object, a list of objects, or a container with an @graph of objects
IsObjectShape(v) ==
    /\ v.kind \in {"object", "list"}
    /\ \A i \in 1..Len(v.items) : v.items[i].kind = "object"
IsExtractorCall ==
    fnCall.fn \in {"PlaywrightBrowserAdapter.extract_json_ld",
                   "RiachueloScraper._extract_json_ld"}

\* C12 as stated: on a page whose blocks are single objects, lists of objects
\* or @graph containers of objects, each extractor returns the first object
\* in document/list order typed Product or ProductGroup, and None when there
\* is none, objects inside an @graph included.
C12_FirstRecognizedObjectOfAnyShape ==
    (IsExtractorCall /\ \A b \in 1..Len(fnCall.in) : IsObjectShape(fnCall.in[b])) =>
        fnCall.out = Extracted(None, FirstRecognized(fnCall.in))

\* C13 as stated: a block that is not JSON is skipped and the scan goes on
\* with the blocks after it. Taken on pages whose other blocks are single
\* objects or lists of objects: the first recognized object among them is
\* what each extractor returns.
C13_MalformedBlockIsSkipped ==
    (/\ IsExtractorCall
     /\ \E b \in 1..Len(fnCall.in) : fnCall.in[b] = MalformedBlock
     /\ \A b \in 1..Len(fnCall.in) :
            \/ fnCall.in[b] = MalformedBlock
            \/ (IsObjectShape(fnCall.in[b]) /\ ~fnCall.in[b].graph)) =>
        fnCall.out = Extracted(None, FirstRecognized(fnCall.in))

\* C14 as stated: the extractor never raises, whatever the blocks hold, and
\* when no object on the page declares a recognized type it returns None.
C14_ExtractorNeverRaises ==
    IsExtractorCall =>
        /\ fnCall.out.raised = None
        /\ FirstRecognized(fnCall.in) = NoPath => fnCall.out.ret = NoPath

IsFenced(call) == call.in.wrapping.fenced
\* C15: for every JSON text t, the normalizer applied to t inside a fenced
\* block (opening fence with or without a language tag, a newline, t, the
\* closing fence, white space allowed around the block) returns the value
\* the normalizer returns for t alone, and that value is the decoded t.
C15_FenceIsTransparent ==
    (/\ fnCall.fn = "ClaudeAIAdapter._parse_json_response"
     /\ fnCall.in.text \in JsonTexts
     /\ IsFenced(fnCall)) =>
        /\ fnCall.out = ParseJsonResponse(fnCall.in.text)
        /\ fnCall.out = JsonLoads(fnCall.in.text)
        /\ fnCall.out.raised = None

\* a fenced multi-line object with a language tag and white space around
C15_Witness ==
    /\ fnCall.fn = "ClaudeAIAdapter._parse_json_response"
    /\ IsFenced(fnCall)
    /\ fnCall.in.wrapping.tag = <<"json">>
    /\ fnCall.in.wrapping.post # <<>>
    /\ Len(fnCall.in.text) > 3
    /\ fnCall.out.raised = None
    /\ fnCall.out.value.kind = "object"

\* C16 as stated: complete either returns a decoded JSON object (a mapping)
\* or raises the AI-gateway error; a transport failure and a reply that is
\* not JSON raise it.
C16_CompleteReturnsMappingOrRaises ==
    fnCall.fn = "ClaudeAIAdapter.complete" =>
        /\ \/ (fnCall.out.raised = None /\ fnCall.out.value.kind = "object")
           \/ fnCall.out.raised = "AIGatewayException"
        /\ fnCall.in.kind # "text" => fnCall.out.raised = "AIGatewayException"

StageFns ==
    {"ExtractAttributesAction.apply", "CategorizeProductAction.apply",
     "GenerateContentAction.apply"}
RecognizedKeys(fn) ==
    CASE fn = "ExtractAttributesAction.apply" -> AttributesKeys
      [] fn = "CategorizeProductAction.apply" -> CategorizationKeys
      [] OTHER -> ContentKeys
\* keys the entity declares as a list
SequenceKeys ==
    {"care_instructions", "key_features", "occasions", "seasons", "style_tags",
     "search_keywords", "complementary_categories", "marketing_highlights"}
\* the keys of a stage call's reply that hold null
NullKeys(call) == {k \in DOMAIN call.in : call.in[k] = "null"}
StageKeptGoing(call) ==
    /\ call.out.exc = None
    /\ call.out.response = NoResult
    /\ DOMAIN call.out.value = RecognizedKeys(call.fn)
    /\ \A k \in RecognizedKeys(call.fn) \cap DOMAIN call.in :
            call.out.value[k] = call.in[k]

\* C17 as stated: for a reply without nulls whose keys are any subset of the
\* stage's keys plus extra keys, the stage does not raise and the use case goes on;
\* recognized keys are copied, extra keys are dropped, and a missing key
\* becomes an empty sequence when it is a sequence key and None otherwise.
C17_MissingKeysGetDefaults ==
    fnCall.fn \in StageFns /\ NullKeys(fnCall) = {} =>
        /\ StageKeptGoing(fnCall)
        /\ \A k \in RecognizedKeys(fnCall.fn) \ DOMAIN fnCall.in :
                fnCall.out.value[k] = IF k \in SequenceKeys THEN "empty" ELSE None

\* C17 amended: as above, but a missing care_instructions becomes None like
\* a missing scalar key; every other missing sequence key becomes an empty
\* sequence, and the missing nested material_parsed and target_audience
\* become None.
C17_MissingKeysGetDefaultsButCare ==
    fnCall.fn \in StageFns /\ NullKeys(fnCall) = {} =>
        /\ StageKeptGoing(fnCall)
        /\ \A k \in RecognizedKeys(fnCall.fn) \ DOMAIN fnCall.in :
                fnCall.out.value[k] =
                    IF k \in SequenceKeys \ {"care_instructions"} THEN "empty" ELSE None

\* a reply with an extra key and without the key whose length is logged
C17_Witness ==
    /\ fnCall.fn = "CategorizeProductAction.apply"
    /\ DOMAIN fnCall.in = {ExtraKey, "seasons"}
    /\ fnCall.out.exc = None
    /\ fnCall.out.value["occasions"] = "empty"
    /\ fnCall.out.value["seasons"] = "value"

\* C18 as stated: has_discount() is true exactly when original_price is
\* present and differs as a string from price; it is false when price or
\* original_price is absent, and false when the two are equal.
C18_HasDiscountIffPresentAndUnequal ==
    fnCall.fn = "Product.has_discount" =>
        /\ fnCall.out =>
                (fnCall.in.original_price.some
                    /\ fnCall.in.original_price.val # fnCall.in.price.val)
        /\ (~fnCall.in.price.some \/ ~fnCall.in.original_price.some) => ~fnCall.out
        /\ fnCall.in.price = fnCall.in.original_price => ~fnCall.out
        /\ (fnCall.in.price.some /\ fnCall.in.original_price.some
                /\ fnCall.in.original_price.val # fnCall.in.price.val) => fnCall.out

\* the sizes the variants declare
DeclaredSizes(variants) ==
    {variants[i].val : i \in {k \in 1..Len(variants) : StrTruthy(variants[k])}}
Range(seq) == {seq[i] : i \in 1..Len(seq)}

\* C19: for a payload with a variant list the resolved sizes are exactly the
\* distinct sizes the variants declare, none twice; they ascend by integer
\* value when every one of them spells an integer, and ascend as text
\* otherwise; with no size declared there are no sizes.
C19_SizesDistinctAndSorted ==
    (fnCall.fn = "RiachueloEcommerceAdapter._extract_sizes"
        /\ fnCall.in.hasVariant = "list") =>
        LET declared == DeclaredSizes(fnCall.in.variants)
            sizes == fnCall.out.val
        IN /\ fnCall.out.some <=> declared # {}
           /\ Range(sizes) = declared
           /\ Len(sizes) = Cardinality(declared)
           /\ \A i, j \in 1..Len(sizes) :
                i < j => IF \A d \in declared : IsInt(d)
                         THEN IntOf(sizes[i]) < IntOf(sizes[j])
                         ELSE StrLess(sizes[i], sizes[j])

\* the sizes 10, 2, 1 come out as 1, 2, 10
C19_Witness ==
    /\ fnCall.fn = "RiachueloEcommerceAdapter._extract_sizes"
    /\ fnCall.in.variants = <<Str(<<"1", "0">>), Str(<<"2">>), Str(<<"1">>)>>
    /\ fnCall.out.val = <<<<"1">>, <<"2">>, <<"1", "0">>>>

\* the selectors whose element holds text besides white space
NameSelectorsWithText(dom) ==
    {i \in DOMAIN dom : dom[i].some /\ Strip(dom[i].val) # <<>>}

\* C20: the name of an extracted product is never empty; it is the name of
\* the structured data when that holds one, else the trimmed text of the
\* first name selector, in chain order, whose element has text, and it is
\* "Unknown Product" exactly when neither gives anything.
C20_NameNeverEmpty ==
    fnCall.fn = "RiachueloEcommerceAdapter.extract_product_details" =>
        LET ld == fnCall.in.json_ld_data
            fromLd == ld.present /\ ld.name.some /\ ld.name.val # <<>>
            withText == NameSelectorsWithText(fnCall.in.dom)
            name == fnCall.out.name
        IN /\ name # <<>>
           /\ fromLd => name = ld.name.val
           /\ (~fromLd /\ withText # {}) =>
                name = Strip(fnCall.in.dom[First(withText)].val)
           /\ name = UnknownProduct <=> (~fromLd /\ withText = {})

\* no name in the structured data, the first selector's element is blank,
\* the second one's text is taken, trimmed
C20_Witness ==
    /\ fnCall.fn = "RiachueloEcommerceAdapter.extract_product_details"
    /\ fnCall.in.json_ld_data = [present |-> TRUE, name |-> NoStr]
    /\ fnCall.in.dom[1] = Str(<<" ">>)
    /\ fnCall.in.dom[2] = Str(<<" ", "Camiseta", Newline>>)
    /\ fnCall.out.name = <<"Camiseta">>


\* C21 as stated: when a stage reply carries recognized keys holding null
\* (scalar keys, sequence keys, the nested material_parsed and
\* target_audience), the stage does not raise, the use case goes on towards
\* success, and each such field of the parsed result is None.
C21_NullKeysDoNotFail ==
    fnCall.fn \in StageFns /\ NullKeys(fnCall) # {} =>
        /\ fnCall.out.exc = None
        /\ fnCall.out.response = NoResult
        /\ \A k \in NullKeys(fnCall) : fnCall.out.value[k] = None

\* C22 as stated, for the scrape: on a page whose fields are missing in any
\* way no collaborator raises (absence is a value, not an exception), and
\* such a scrape ends with a success, neither an error response nor an
\* exception.
C22_MissingFieldsStillSucceed ==
    (sInput.query # <<>> /\ sInput.world.fail = None) =>
        sResult.tag \notin {"error", "raised"}

\* C23 as stated: the structured category is the result when it holds a
\* non-empty text; when there is no structured data, no category key, or
\* the key holds null or an empty text, the result is what the breadcrumb
\* tier gives: the non-empty trimmed texts of the links after the first,
\* joined with " > " (nothing when there are none).
C23_CategoryTiers ==
    fnCall.fn = "RiachueloEcommerceAdapter._extract_category" =>
        LET ld == fnCall.in.json_ld_data
            yields == ld.present /\ ld.hasCategory /\ StrTruthy(ld.category)
        IN /\ yields => fnCall.out = ld.category
           /\ ~yields => fnCall.out = CategoryFromBreadcrumbs(fnCall.in.breadcrumbs)

\* what C24 calls a highPrice that differs, as a string, from lowPrice:
\* a missing lowPrice differs from every highPrice
HighDiffersFromLow(offer) ==
    offer.lowPrice = NoKey \/ PyStr(offer.highPrice) # PyStr(offer.lowPrice)

\* C24 as stated: original_price is emitted exactly when offers is a single
\* object whose highPrice is present (the key is there and not null) and
\* differs as a string from lowPrice, and it is then "R$" followed by the
\* raw highPrice; otherwise it is absent.
C24_OriginalPriceIffHighPricePresent ==
    fnCall.fn = "RiachueloEcommerceAdapter._extract_original_price" =>
        LET ld == fnCall.in
            emitted == /\ ld.present
                       /\ ld.offers = "dict"
                       /\ ld.offer.highPrice \notin {NoKey, Null}
                       /\ HighDiffersFromLow(ld.offer)
        IN fnCall.out = IF emitted
                        THEN Str(<<"R$">> \o PyStr(ld.offer.highPrice))
                        ELSE NoStr

\* C24 amended: as above, but a highPrice that is zero or an empty text
\* counts as missing, and a null lowPrice is compared as the text "None".
C24_OriginalPriceIffHighPriceTruthy ==
    fnCall.fn = "RiachueloEcommerceAdapter._extract_original_price" =>
        LET ld == fnCall.in
            emitted == /\ ld.present
                       /\ ld.offers = "dict"
                       /\ ld.offer.highPrice \notin
                            {NoKey, Null, Num(<<"0">>), Text(<<>>)}
                       /\ HighDiffersFromLow(ld.offer)
        IN fnCall.out = IF emitted
                        THEN Str(<<"R$">> \o PyStr(ld.offer.highPrice))
                        ELSE NoStr

\* a single offer whose highPrice is a number and whose lowPrice is the
\* text spelling the same number: no original price
C24_Witness ==
    /\ fnCall.fn = "RiachueloEcommerceAdapter._extract_original_price"
    /\ fnCall.in.offers = "dict"
    /\ fnCall.in.offer = [highPrice |-> Num(<<"199">>), lowPrice |-> Text(<<"199">>)]
    /\ fnCall.out = NoStr

\* the positions where a run of exactly 8 digits starts that an underscore
\* follows
RunsBeforeUnderscore(url) ==
    {i \in 1..Len(url) :
        /\ DigitsAt(url, i, 8)
        /\ i + 8 <= Len(url) /\ url[i + 8] = "_"
        /\ (i = 1 \/ ~IsDigit(url[i - 1]))}
\* the positions where a hyphen, exactly 8 digits and an underscore follow
\* one another; the position is that of the first digit
HyphenRunsBeforeUnderscore(url) ==
    {i \in RunsBeforeUnderscore(url) : i > 1 /\ url[i - 1] = "-"}
FirstRun(url, at) ==
    LET i == CHOOSE k \in at : \A m \in at : k <= m IN Str(SubSeq(url, i, i + 7))

\* C25 as stated: a structured sku that is there is the SKU; otherwise,
\* when the URL has a run of 8 digits right before an underscore, that run
\* (the first one) is the SKU; otherwise there is no SKU.
C25_SkuFromDataOrUrlRun ==
    fnCall.fn = "RiachueloEcommerceAdapter._extract_sku" =>
        LET ld == fnCall.in.json_ld_data
            url == fnCall.in.current_url
        IN fnCall.out =
            IF ld.present /\ StrTruthy(ld.sku) THEN ld.sku
            ELSE IF RunsBeforeUnderscore(url) # {}
                 THEN FirstRun(url, RunsBeforeUnderscore(url))
                 ELSE NoStr

\* C25 amended: as above, but only a run of 8 digits that has a hyphen
\* right before it and the underscore right after it counts.
C25_SkuFromDataOrHyphenRun ==
    fnCall.fn = "RiachueloEcommerceAdapter._extract_sku" =>
        LET ld == fnCall.in.json_ld_data
            url == fnCall.in.current_url
        IN fnCall.out =
            IF ld.present /\ StrTruthy(ld.sku) THEN ld.sku
            ELSE IF HyphenRunsBeforeUnderscore(url) # {}
                 THEN FirstRun(url, HyphenRunsBeforeUnderscore(url))
                 ELSE NoStr

\* an empty structured sku and a URL with two "-digits_" runs: the first
\* run is the SKU
C25_Witness ==
    /\ fnCall.fn = "RiachueloEcommerceAdapter._extract_sku"
    /\ fnCall.in.json_ld_data.sku = Str(<<>>)
    /\ fnCall.in.current_url =
            <<"-">> \o Run("1", 8) \o <<"_", "-">> \o Run("2", 8) \o <<"_">>
    /\ fnCall.out = Str(Run("1", 8))

\* C26: a save of the products repository returns the product it was given
\* carrying the identifier of its row, and leaves that row committed, one
\* row for a sku.
C26_SaveUpsertsCommitsAndReturnsId ==
    dbCall.fn = "PostgresProductRepositoryAdapter.save" =>
        /\ dbCall.out.raised = None
        /\ dbCall.out.id # <<>>
        /\ \E r \in productRows :
                /\ r.id = dbCall.out.id[1]
                /\ r.sku = dbCall.in.sku /\ r.name = dbCall.in.name
        /\ \A r, o \in productRows : (r.sku.some /\ r.sku = o.sku) => r = o

RowsOfBefore(call) == RowsOf(call.before, call.in)
Timed(rows) == {r \in rows : r.enriched_at # NoTime}
IsPrefixOf(a, b) == Len(a) <= Len(b) /\ SubSeq(b, 1, Len(a)) = a
SaveAddsOneRow(call) ==
    /\ call.out.raised = None
    /\ Len(enrichmentRows) = Len(call.before) + 1
    /\ IsPrefixOf(call.before, enrichmentRows)
    /\ enrichmentRows[Len(enrichmentRows)].product_id = call.in.product_id
    /\ enrichmentRows[Len(enrichmentRows)].enriched_at = call.in.enriched_at
FindGivesLatest(call) ==
    /\ enrichmentRows = call.before
    /\ RowsOfBefore(call) = {} => call.out = NoEnrichment
    /\ RowsOfBefore(call) # {} =>
            /\ call.out.found /\ call.out.product_id = call.in
            /\ \E r \in RowsOfBefore(call) : r.enriched_at = call.out.enriched_at
            /\ \A r \in Timed(RowsOfBefore(call)) :
                    /\ call.out.enriched_at # NoTime
                    /\ call.out.enriched_at[1] >= r.enriched_at[1]

C28_SessionReleasedOnEveryExit ==
    scraper.with = "left" => openResources = {}

\* C29: a care_instructions list of one or more non-empty strings, commas
\* allowed, is read back by find_by_product_id as an equal list: the same
\* elements in the same order.
C29_CareInstructionsRoundTrip ==
    (fnCall.fn = "PostgresEnrichmentRepositoryAdapter.care_instructions"
        /\ fnCall.in.some /\ fnCall.in.val # <<>>) =>
        fnCall.out.found = fnCall.in

SaveSteps(log) == {i \in 1..Len(log) : log[i].step = "save"}

\* C30: a scrape with a repository returns a success only after exactly
\* one save that returned normally; and when the save raises (an exception
\* that is neither product-not-found nor navigation) after the extraction
\* succeeded, the scrape returns the error unexpected_error carrying the
\* query, not the product.
C30_SuccessOnlyAfterSave ==
    /\ (sResult.tag = "success" /\ sInput.repo) =>
            /\ Cardinality(SaveSteps(sSteps)) = 1
            /\ \A i \in SaveSteps(sSteps) : sSteps[i].raised = None
    /\ (sInput.world.fail = "save"
            /\ sInput.world.exc \notin {"ProductNotFoundException", "NavigationException"}) =>
            sResult = [tag |-> "error", error_type |-> "unexpected_error",
                       query |-> sInput.query]

====
